---- MODULE Spec2Model ----
(***************************************************************************)
(* FlashFloppy src/gotek/lcd.c: the HD44780 (PCF8574 backpack) / SSD1306    *)
(* display driver.  One foreground context calls the public operations;    *)
(* the I2C error ISR, the DMA-completion ISR and the timeout timer run in   *)
(* interrupt context.  The three ISRs share one priority, so an ISR runs    *)
(* to completion and is one action; the foreground is split at the points   *)
(* where an interrupt can preempt it.                                       *)
(***************************************************************************)
EXTENDS Integers, Sequences, FiniteSets, TLC

(* ------------------------------------------------------------------ *)
(* Program constants                                                  *)
(* ------------------------------------------------------------------ *)
BL_BIT == 8
EN_BIT == 4
RS_BIT == 1
CMD_ENTRYMODE == 4
CMD_DISPLAYCTL == 8
CMD_FUNCTIONSET == 32
CMD_SETDDRADDR == 128
FS_2LINE == 8
OLED_ADDR == 60
BUFFER_SIZE == 256
TEXT_ROWS == 2
TEXT_COLS == 16
SPACE == 32
OLED_ROW_BYTES == 256

(* ------------------------------------------------------------------ *)
(* Bounds of the model                                                *)
(* ------------------------------------------------------------------ *)
\* refresh_count is a uint8_t; ticks are cut off once it reaches this value.
MaxRefresh == 4
\* lcd_write alone is run with min up to MaxMin and strings up to MaxStr long.
MaxMin == 17
MaxStr == 3
\* The detector is run against every set of at most MaxAcks acknowledging
\* addresses.
MaxAcks == 3
\* i2c_wait gives up after WaitPolls units of time without the status (10 ms).
WaitPolls == 2

(* ------------------------------------------------------------------ *)
(* uint8_t arithmetic                                                 *)
(* ------------------------------------------------------------------ *)
RECURSIVE BitOr(_, _)
BitOr(a, b) ==
    IF a = 0 THEN b
    ELSE IF b = 0 THEN a
    ELSE (IF (a % 2 = 1) \/ (b % 2 = 1) THEN 1 ELSE 0) + 2 * BitOr(a \div 2, b \div 2)

RECURSIVE BitAnd(_, _)
BitAnd(a, b) ==
    IF a = 0 \/ b = 0 THEN 0
    ELSE (IF (a % 2 = 1) /\ (b % 2 = 1) THEN 1 ELSE 0) + 2 * BitAnd(a \div 2, b \div 2)

\* U8 for a counter that does not wrap.
U8_NoWrap(x) == x

U8(x) == x % 256

(* ------------------------------------------------------------------ *)
(* Character-mode serializer: emit4, emit8, lcd_prep_buffer           *)
(* ------------------------------------------------------------------ *)
\* a | b and a & 0xf0 for the operands the serializer meets, tabulated.
OrTab == [ a \in 0 .. 4095 |-> [ b \in 0 .. 15 |-> BitOr(a, b) ] ]
HiNibble == [ a \in 0 .. 255 |-> BitAnd(a, 240) ]

\* emit4 that never raises the enable bit.
emit4_NoEnable(val) == << val, val, val >>

\* The three bytes emit4 appends: val, val|_EN, val.
emit4(val) == << val, OrTab[val][EN_BIT], val >>

\* emit8 with the backlight bit left out of every byte.
emit8_NoBacklight(val, signals, blv) ==
    emit4(OrTab[HiNibble[val]][signals]) \o emit4(U8(OrTab[val * 16][signals]))

\* The six bytes emit8 appends; blv is the value of _bl when it runs.
emit8(val, signals, blv) ==
    LET s == OrTab[signals][blv] IN
    emit4(OrTab[HiNibble[val]][s]) \o emit4(U8(OrTab[val * 16][s]))

\* The 16 data writes of text row i (the inner loop of lcd_prep_buffer).
RECURSIVE EmitRow(_, _, _, _)
EmitRow(t, i, j, blv) ==
    IF j >= TEXT_COLS THEN << >>
    ELSE emit8(t[i * TEXT_COLS + j], RS_BIT, blv) \o EmitRow(t, i, j + 1, blv)

\* The payload lcd_prep_buffer leaves in buffer[]: for each row the
\* set-DDRAM-address command, then the row's 16 characters.
lcd_prep_bytes(t, blv) ==
    emit8(BitOr(CMD_SETDDRADDR, 0 * 64), 0, blv) \o EmitRow(t, 0, 0, blv) \o
    emit8(BitOr(CMD_SETDDRADDR, 1 * 64), 0, blv) \o EmitRow(t, 1, 0, blv)

\* The payload lcd_init queues after the synchronous 4-bit handshake.
lcd_init_bytes(blv) ==
    emit8(BitOr(CMD_FUNCTIONSET, FS_2LINE), 0, blv) \o
    emit8(CMD_DISPLAYCTL, 0, blv) \o
    emit8(BitOr(CMD_ENTRYMODE, 2), 0, blv) \o
    emit8(BitOr(CMD_DISPLAYCTL, 4), 0, blv)

(* ------------------------------------------------------------------ *)
(* Bitmap-mode serializer: oled_start_i2c, oled_init,                 *)
(* oled_convert_text_row                                              *)
(* ------------------------------------------------------------------ *)
setup_addr_cmds == << 32, 0, 33, 0, 127, 34, 0, 3 >>

init_cmds == << 213, 128, 168, 31, 211, 0, 64, 141, 20, 161, 200, 218, 2,
                129, 143, 217, 241, 219, 32, 164, 166, 46 >>

\* Each command byte is sent behind a 0x80 (Co=1, command) control byte.
RECURSIVE OledCmds(_)
OledCmds(cmds) ==
    IF cmds = << >> THEN << >>
    ELSE << 128, Head(cmds) >> \o OledCmds(Tail(cmds))

\* oled_start_i2c without the data-mode marker.
oled_start_bytes_NoMarker(blv) ==
    OledCmds(setup_addr_cmds) \o
    << 128, IF blv # 0 THEN 175 ELSE 174 >>

\* The bytes oled_start_i2c writes: the addressing window, display on/off
\* according to _bl, and the 0x40 data-mode marker.
oled_start_bytes(blv) ==
    OledCmds(setup_addr_cmds) \o
    << 128, IF blv # 0 THEN 175 ELSE 174 >> \o
    << 64 >>

\* The payload oled_init queues: the init commands, then oled_start_i2c's bytes.
oled_init_bytes(blv) == OledCmds(init_cmds) \o oled_start_bytes(blv)

\* Byte n of the table oled_font_8x16[] (data that is not part of the source):
\* kept symbolic, outside the range of a byte.
FontByte(n) == 256 + n

\* The glyph index oled_convert_text_row uses for character ch: ch - 0x20 as
\* an unsigned int, replaced by '.' - 0x20 when it exceeds 0x5e.
GlyphIndex(ch) == IF ch < 32 \/ ch - 32 > 94 THEN 46 - 32 ELSE ch - 32

\* buffer[] after oled_convert_text_row(text[r]) (8x16 font): character i puts
\* font words 0,1 at words 2i,2i+1 and font words 2,3 at words 32+2i,32+2i+1.
oled_row_bytes(t, r) ==
    [ n \in 1..OLED_ROW_BYTES |->
        LET b == n - 1
            w == b \div 4
            i == IF w < 32 THEN w \div 2 ELSE (w - 32) \div 2
            k == IF w < 32 THEN w % 2 ELSE 2 + (w % 2)
        IN FontByte((GlyphIndex(t[r * TEXT_COLS + i]) * 4 + k) * 4 + (b % 4)) ]

(* ------------------------------------------------------------------ *)
(* lcd_write                                                          *)
(* ------------------------------------------------------------------ *)
\* The locals of lcd_write on entry: p = &text[row][col]; ph is the loop
\* it is in (1: copy loop, 2: padding loop, 3: returned).
WriteStart(col, row, min, str) ==
    [ p |-> row * TEXT_COLS + col, col |-> col, min |-> min, str |-> str, ph |-> 1 ]

\* A store through p; a store outside text[][] is not modelled as changing text.
Store(t, p, c) == IF p \in DOMAIN t THEN [ t EXCEPT ![p] = c ] ELSE t

\* lcd_write_step with the column test off by one (col++ <= 16).
lcd_write_step_Spill(t, w) ==
    IF w.ph = 1 THEN
        LET c == IF w.str = << >> THEN 0 ELSE Head(w.str)
            rest == IF w.str = << >> THEN << >> ELSE Tail(w.str)
        IN IF c = 0 THEN [ t |-> t, w |-> [ w EXCEPT !.str = rest, !.ph = 2 ] ]
           ELSE IF w.col <= TEXT_COLS
                THEN [ t |-> Store(t, w.p, c),
                       w |-> [ w EXCEPT !.str = rest, !.col = @ + 1, !.p = @ + 1,
                                        !.min = @ - 1 ] ]
                ELSE [ t |-> t, w |-> [ w EXCEPT !.str = rest, !.col = @ + 1, !.ph = 2 ] ]
    ELSE
        IF w.min > 0
        THEN IF w.col <= TEXT_COLS
             THEN [ t |-> Store(t, w.p, SPACE),
                    w |-> [ w EXCEPT !.min = @ - 1, !.col = @ + 1, !.p = @ + 1 ] ]
             ELSE [ t |-> t, w |-> [ w EXCEPT !.min = @ - 1, !.col = @ + 1, !.ph = 3 ] ]
        ELSE [ t |-> t, w |-> [ w EXCEPT !.min = @ - 1, !.ph = 3 ] ]

\* One evaluation of a loop condition of lcd_write and, when it holds, the
\* loop body.  Copy loop: (c = *str++) && (col++ < 16); body *p++ = c; min--.
\* Padding loop: (min-- > 0) && (col++ < 16); body *p++ = ' '.
lcd_write_step(t, w) ==
    IF w.ph = 1 THEN
        LET c == IF w.str = << >> THEN 0 ELSE Head(w.str)
            rest == IF w.str = << >> THEN << >> ELSE Tail(w.str)
        IN IF c = 0 THEN [ t |-> t, w |-> [ w EXCEPT !.str = rest, !.ph = 2 ] ]
           ELSE IF w.col < TEXT_COLS
                THEN [ t |-> Store(t, w.p, c),
                       w |-> [ w EXCEPT !.str = rest, !.col = @ + 1, !.p = @ + 1,
                                        !.min = @ - 1 ] ]
                ELSE [ t |-> t, w |-> [ w EXCEPT !.str = rest, !.col = @ + 1, !.ph = 2 ] ]
    ELSE
        IF w.min > 0
        THEN IF w.col < TEXT_COLS
             THEN [ t |-> Store(t, w.p, SPACE),
                    w |-> [ w EXCEPT !.min = @ - 1, !.col = @ + 1, !.p = @ + 1 ] ]
             ELSE [ t |-> t, w |-> [ w EXCEPT !.min = @ - 1, !.col = @ + 1, !.ph = 3 ] ]
        ELSE [ t |-> t, w |-> [ w EXCEPT !.min = @ - 1, !.ph = 3 ] ]

\* lcd_write run to its return, from locals w.
RECURSIVE WriteRun(_, _)
WriteRun(t, w) ==
    IF w.ph = 3 THEN t
    ELSE LET n == lcd_write_step(t, w) IN WriteRun(n.t, n.w)

\* text[][] after lcd_write(col, row, min, str).
lcd_write(t, col, row, min, str) == WriteRun(t, WriteStart(col, row, min, str))

\* text[][] after lcd_clear().
lcd_clear(t) == lcd_write(lcd_write(t, 0, 0, 16, << >>), 0, 1, 16, << >>)

(* ------------------------------------------------------------------ *)
(* Controller detection: i2c_probe, i2c_probe_range                   *)
(* ------------------------------------------------------------------ *)
\* resp[a] is how the bus answers a probe of address a: "ack", "nak" (an
\* error flag ends the wait) or "dead" (the 10 ms wait expires: i2c_dead).
\* The result is the address returned and the new i2c_dead.
RECURSIVE i2c_probe_range(_, _, _, _)
i2c_probe_range(s, e, dead, resp) ==
    IF s > e \/ dead THEN [ a |-> 0, dead |-> dead ]
    ELSE IF resp[s] = "ack" THEN [ a |-> s, dead |-> dead ]
    ELSE i2c_probe_range(s + 1, e, dead \/ resp[s] = "dead", resp)

\* Detect trying the second range before the first.
Detect_SecondRangeFirst(dead, resp) ==
    LET r1 == i2c_probe_range(56, 63, dead, resp)
    IN IF r1.a # 0 THEN r1 ELSE i2c_probe_range(32, 39, r1.dead, resp)

\* a = i2c_probe_range(0x20, 0x27) ?: i2c_probe_range(0x38, 0x3f)
Detect(dead, resp) ==
    LET r1 == i2c_probe_range(32, 39, dead, resp)
    IN IF r1.a # 0 THEN r1 ELSE i2c_probe_range(56, 63, r1.dead, resp)

(* ------------------------------------------------------------------ *)
(* State                                                              *)
(* ------------------------------------------------------------------ *)
VARIABLES
    pc,             \* where the foreground context is
    wr,             \* the locals of the lcd_write in progress
    sy,             \* the synchronous probe in progress: address, wait, time
    sync_c,         \* lcd_sync's local c
    irq_masked,     \* IRQ_save(I2C_IRQ_PRI) is in force
    bl,             \* _bl
    i2c_addr,
    i2c_dead,
    refresh_count,
    buffer,         \* the payload last written to buffer[]
    text,           \* text[2][16], indexed row*16+col
    oled_row,
    i2c_pe,         \* I2C peripheral enabled (CR1.PE) with its error interrupt
    pins,           \* configuration of SCL/SDA
    err_irq_en,     \* I2C_ERROR_IRQ enabled
    dma_irq_en,     \* DMA1_CH4_IRQ enabled
    err_pending,    \* I2C_ERROR_IRQ pending
    dma_en,         \* dma1->ch4.ccr has DMA_CCR_EN
    dma_cnt,        \* dma1->ch4.cndtr as programmed by dma_start
    timer_armed,    \* timeout_timer is set
    row_sent,       \* history: is the latest write to each row on the display
    cleared,        \* history: lcd_clear returned and no lcd_write began since
    last            \* history: the last step, what it called, what it returned

fgv == << pc, wr, sy, sync_c, irq_masked >>
drv == << bl, i2c_addr, i2c_dead, refresh_count, buffer, text, oled_row >>
hwv == << i2c_pe, pins, err_irq_en, dma_irq_en, err_pending, dma_en, dma_cnt,
          timer_armed >>
hist == << row_sent, cleared, last >>
vars == << fgv, drv, hwv, hist >>

Rows == 0 .. (TEXT_ROWS - 1)
Cells == 0 .. (TEXT_ROWS * TEXT_COLS - 1)
Blank == [ n \in Cells |-> SPACE ]
NoWrite == [ p |-> 0, col |-> 0, min |-> 0, str |-> << >>, ph |-> 3,
             row |-> 0, clr |-> 0, old |-> << >>, new |-> << >> ]
\* No probe in progress.
NoSync == [ a |-> 0, ph |-> "none", t |-> 0 ]
\* What a step leaves in last: the operation, its result, the calls it made,
\* the length it handed to dma_start and the bus a probe ran against.
Step(op, ret, calls) ==
    [ op |-> op, ret |-> ret, calls |-> calls, sz |-> -1, bus |-> << >> ]

\* How often the step called f.
Called(f) == Cardinality({ n \in DOMAIN last.calls : last.calls[n] = f })

(* ------------------------------------------------------------------ *)
(* Inputs                                                             *)
(* ------------------------------------------------------------------ *)
ProbeAddrs == (32 .. 39) \cup (56 .. 63)
AllNak == [ a \in ProbeAddrs |-> "nak" ]
\* The buses the first lcd_init is run against: nothing attached, a bus that
\* locks up, an LCD backpack at 0x27, an OLED at 0x3c, and both.
Buses == { AllNak,
           [ AllNak EXCEPT ![34] = "dead" ],
           [ AllNak EXCEPT ![39] = "ack" ],
           [ AllNak EXCEPT ![60] = "ack" ],
           [ AllNak EXCEPT ![39] = "ack", ![60] = "ack" ] }
\* The buses on which the addresses of a set S acknowledge, for every S of at
\* most MaxAcks addresses.
AckBuses ==
    { [ a \in ProbeAddrs |-> IF a \in S THEN "ack" ELSE "nak" ] :
        S \in { T \in SUBSET ProbeAddrs : Cardinality(T) <= MaxAcks } }
\* How the synchronous i2c_start of line 378 can end: the address is
\* acknowledged, an error flag ends a wait, or a wait expires (i2c_dead).
StartOutcomes == { "ok", "err", "timeout" }
\* The lcd_write calls the foreground makes: <<col, row, min, str>>.
WriteArgs == { << 14, 0, 2, << 72, 73 >> >>, << 15, 1, 3, << 65, 66 >> >> }

(* ------------------------------------------------------------------ *)
(* Initial state: the statics of lcd.c are zero                       *)
(* ------------------------------------------------------------------ *)
Statics ==
    /\ wr = NoWrite
    /\ sy = NoSync
    /\ sync_c = 0
    /\ irq_masked = FALSE
    /\ bl = 0
    /\ i2c_addr = 0
    /\ i2c_dead = FALSE
    /\ refresh_count = 0
    /\ buffer = << >>
    /\ oled_row = 0
    /\ i2c_pe = FALSE
    /\ pins = "reset"
    /\ err_irq_en = FALSE
    /\ dma_irq_en = FALSE
    /\ err_pending = FALSE
    /\ dma_en = FALSE
    /\ dma_cnt = 0
    /\ timer_armed = FALSE
    /\ row_sent = [ r \in Rows |-> "done" ]
    /\ cleared = FALSE
    /\ last = Step("none", "", << >>)

Init ==
    /\ pc = "boot"
    /\ text = [ n \in Cells |-> 0 ]
    /\ Statics

(* ------------------------------------------------------------------ *)
(* History of each row's latest content                               *)
(* ------------------------------------------------------------------ *)
\* The frame length of a display of four text rows.
LcdFrameLen_FourRows == 4 * (1 + TEXT_COLS) * 6

\* Length of a character-mode frame: per row one command and 16 characters,
\* six bytes each.
LcdFrameLen == TEXT_ROWS * (1 + TEXT_COLS) * 6
\* The transfer in flight was dropped (DMA reset, or buffer[] reused).
Aborted(rs) == [ r \in Rows |-> IF rs[r] = "inflight" THEN "stale" ELSE rs[r] ]
\* The rows the payload in buffer[] carries.
RowsInBuffer ==
    IF i2c_addr = OLED_ADDR
    THEN IF dma_cnt = OLED_ROW_BYTES /\ oled_row > 0 THEN { oled_row - 1 } ELSE { }
    ELSE IF dma_cnt = LcdFrameLen THEN Rows ELSE { }
\* The transfer of rows R ran to completion.
Completed(rs, R) ==
    [ r \in Rows |-> IF r \in R /\ rs[r] = "inflight" THEN "done" ELSE rs[r] ]
\* A transfer carrying rows R was started.
Started(rs, R) ==
    [ r \in Rows |-> IF r \in R /\ rs[r] = "stale" THEN "inflight" ELSE rs[r] ]

(* ------------------------------------------------------------------ *)
(* lcd_init                                                           *)
(* ------------------------------------------------------------------ *)
\* The hardware state a step starts from, with the trace of the calls the
\* step has made so far.
Hw == [ i2c_pe |-> i2c_pe, pins |-> pins, err_irq_en |-> err_irq_en,
        dma_irq_en |-> dma_irq_en, err_pending |-> err_pending,
        dma_en |-> dma_en, dma_cnt |-> dma_cnt, timer_armed |-> timer_armed,
        calls |-> << >> ]

SetHw(h) ==
    /\ i2c_pe' = h.i2c_pe
    /\ pins' = h.pins
    /\ err_irq_en' = h.err_irq_en
    /\ dma_irq_en' = h.dma_irq_en
    /\ err_pending' = h.err_pending
    /\ dma_en' = h.dma_en
    /\ dma_cnt' = h.dma_cnt
    /\ timer_armed' = h.timer_armed

Call(h, f) == [ h EXCEPT !.calls = Append(@, f) ]

\* The fail: label with the interrupt disabling left out.
InitFail_StaysArmed(reinit, h) == h

\* The fail: label with no early return for a reinit.
InitFail_AlwaysDisarm(reinit, h) ==
    [ h EXCEPT !.err_irq_en = FALSE, !.dma_irq_en = FALSE,
               !.i2c_pe = FALSE, !.pins = "pull_up" ]

\* The fail: label of lcd_init.  h is the hardware state on reaching it: a
\* reinit returns at once, a first initialisation disables the two
\* interrupts and the peripheral and parks the pins as pull-up inputs.
InitFail(reinit, h) ==
    IF reinit THEN h
    ELSE [ h EXCEPT !.err_irq_en = FALSE, !.dma_irq_en = FALSE,
                    !.i2c_pe = FALSE, !.pins = "pull_up" ]

\* dma_start that leaves the timeout timer alone.
dma_start_NoTimer(sz, h) ==
    Call([ h EXCEPT !.dma_cnt = sz, !.dma_en = TRUE ], "dma_start")

\* dma_start that does nothing for an empty payload.
dma_start_SkipEmpty(sz, h) ==
    IF sz = 0 THEN h
    ELSE Call(Call([ h EXCEPT !.dma_cnt = sz, !.dma_en = TRUE, !.timer_armed = TRUE ],
                   "dma_start"), "timer_set")

\* dma_start(sz): program the channel and set the timeout timer.
dma_start(sz, h) ==
    Call(Call([ h EXCEPT !.dma_cnt = sz, !.dma_en = TRUE, !.timer_armed = TRUE ],
              "dma_start"), "timer_set")

\* lcd_init from the bus set-up to the timeout timer (lines 325-371): pins to
\* alternate function, peripheral enabled, the three interrupts enabled with
\* their pending bits cleared, timeout timer set.
InitArm(h) ==
    Call([ h EXCEPT !.pins = "afo", !.i2c_pe = TRUE, !.err_irq_en = TRUE,
                    !.dma_irq_en = TRUE, !.err_pending = FALSE, !.timer_armed = TRUE ],
         "timer_set")

\* Reinit with the flag set only once a refresh has been counted.
Reinit_AfterRefresh(addr) == addr # 0 /\ refresh_count > 0

\* Reinit with the flag never set.
Reinit_Never(addr) == FALSE

\* The reinit flag of a run of lcd_init that finds this i2c_addr.
Reinit(addr) == addr # 0

\* ClearsText for a driver that never clears.
ClearsText_Never(reinit) == FALSE

\* Whether lcd_init calls lcd_clear after the probe (line 348, inside
\* if (!reinit)).
ClearsText(reinit) == ~reinit

\* oled_init: queue the init commands and oled_start_i2c's bytes.
oled_init(h) ==
    [ h |-> dma_start(Len(oled_init_bytes(bl)),
                      Call(Call(h, "oled_init"), "oled_start_i2c")),
      buffer |-> oled_init_bytes(bl), oled_row |-> 0 ]

\* Lines 391-397 of lcd_init: queue the rest of the HD44780 initialisation.
lcd_init_queue(h) ==
    [ h |-> dma_start(Len(lcd_init_bytes(bl)), h),
      buffer |-> lcd_init_bytes(bl), oled_row |-> oled_row ]

\* lcd_init from its entry to the timeout timer and, for the OLED, to its
\* return (lines 281-376).  h: the hardware state on entry; float_ok: both
\* lines read high under the weak pull-downs; resp: how the bus answers the
\* probes.  ret is "" when the run goes on to line 378.
lcd_init_head(h, float_ok, resp) ==
    LET reinit == Reinit(i2c_addr)
        same == [ addr |-> i2c_addr, dead |-> i2c_dead, text |-> text,
                  buffer |-> buffer, oled_row |-> oled_row, clr |-> FALSE ]
        h1 == IF reinit THEN Call(h, "lcd_init")
              ELSE Call(Call(h, "lcd_init"), "float_check")
    IN IF ~reinit /\ ~float_ok
       THEN same @@ [ h |-> InitFail(reinit, h1), ret |-> "FALSE" ]
       ELSE LET d == IF reinit THEN [ a |-> i2c_addr, dead |-> i2c_dead ]
                     ELSE Detect(i2c_dead, resp)
                h2 == [ h1 EXCEPT !.pins = "afo", !.i2c_pe = TRUE ]
                h3 == IF reinit THEN h2 ELSE Call(h2, "i2c_probe_range")
            IN IF d.a = 0
               THEN [ same EXCEPT !.dead = d.dead ] @@
                    [ h |-> InitFail(reinit, h3), ret |-> "FALSE" ]
               ELSE LET clr == ClearsText(reinit)
                        h4 == InitArm(IF clr THEN Call(h3, "lcd_clear") ELSE h3)
                        t == IF clr THEN lcd_clear(text) ELSE text
                    IN IF d.a = OLED_ADDR
                       THEN oled_init(h4) @@
                            [ addr |-> d.a, dead |-> d.dead, text |-> t, clr |-> clr,
                              ret |-> "TRUE" ]
                       ELSE [ same EXCEPT !.addr = d.a, !.dead = d.dead, !.text = t,
                                          !.clr = clr ] @@
                            [ h |-> h4, ret |-> "" ]

\* lcd_init as the error ISR runs it, start to return.  The ISR is enabled
\* only once i2c_addr is set, so the run is a reinit: no floating-bus check, no
\* probe, no lcd_clear, no lcd_sync.  o: how the i2c_start of line 378 ends.
lcd_init_isr(h, float_ok, resp, o) ==
    LET r == lcd_init_head(h, float_ok, resp) IN
    IF r.ret # "" THEN r
    ELSE IF o \in { "err", "timeout" }
    THEN [ r EXCEPT !.h = InitFail(Reinit(i2c_addr), Call(r.h, "i2c_start")),
                    !.dead = r.dead \/ o = "timeout", !.ret = "FALSE" ]
    ELSE lcd_init_queue(Call(Call(r.h, "i2c_start"), "write4")) @@
         [ ret |-> "TRUE" ] @@ r

(* ------------------------------------------------------------------ *)
(* Interrupt context                                                  *)
(* ------------------------------------------------------------------ *)
\* The error ISR is due: its interrupt is enabled, pending and not masked.  It
\* preempts the foreground, which runs no further instruction before it.
ErrorIsrDue == err_irq_en /\ err_pending /\ ~irq_masked

\* timeout_fn: the timeout timer expires and sets the error IRQ pending.
timeout_fn ==
    /\ timer_armed
    /\ timer_armed' = FALSE
    /\ err_pending' = TRUE
    /\ last' = Step("timeout_fn", "", << >>)
    /\ UNCHANGED << fgv, drv, i2c_pe, pins, err_irq_en, dma_irq_en, dma_en, dma_cnt,
                    row_sent, cleared >>

\* The I2C peripheral raises an error flag (ITERREN is set whenever the
\* peripheral is enabled): the error IRQ becomes pending.
BusFault ==
    /\ i2c_pe
    /\ ~err_pending
    /\ err_pending' = TRUE
    /\ last' = Step("BusFault", "", << >>)
    /\ UNCHANGED << fgv, drv, i2c_pe, pins, err_irq_en, dma_irq_en, dma_en, dma_cnt,
                    timer_armed, row_sent, cleared >>

\* IRQ_i2c_error: clear the errors, reset the peripheral and the DMA
\* channel, cancel the timeout timer, run lcd_init.
IRQ_i2c_error ==
    /\ ErrorIsrDue
    /\ \E o \in IF i2c_addr = OLED_ADDR THEN { "ok" } ELSE StartOutcomes,
          float_ok \in IF Reinit(i2c_addr) THEN { TRUE } ELSE BOOLEAN,
          resp \in IF Reinit(i2c_addr) THEN { AllNak } ELSE Buses :
        LET h0 == Call([ Hw EXCEPT !.i2c_pe = FALSE, !.dma_en = FALSE,
                                   !.timer_armed = FALSE ], "timer_cancel")
            r == lcd_init_isr(h0, float_ok, resp, o)
        IN /\ SetHw(r.h)
           /\ buffer' = r.buffer
           /\ oled_row' = r.oled_row
           /\ i2c_dead' = r.dead
           /\ i2c_addr' = r.addr
           /\ text' = r.text
           /\ row_sent' = IF r.clr THEN [ n \in Rows |-> "stale" ]
                          ELSE Aborted(row_sent)
           /\ last' = Step("IRQ_i2c_error", r.ret, r.h.calls)
    /\ UNCHANGED << fgv, bl, refresh_count, cleared >>

\* The serializer IRQ_dma1_ch4_tc picks and what it leaves behind.  btf tells
\* whether oled_prep_buffer's wait for BTF ends with BTF (else with an error
\* flag, and it returns 0).
PrepBuffer(btf) ==
    IF i2c_addr = OLED_ADDR
    THEN IF oled_row = 2
         THEN IF btf
              THEN [ sz |-> Len(oled_start_bytes(bl)), buffer |-> oled_start_bytes(bl),
                     oled_row |-> 0, count |-> U8(refresh_count + 1), err |-> FALSE,
                     rows |-> { },
                     calls |-> << "oled_prep_buffer", "oled_start_i2c" >> ]
              ELSE [ sz |-> 0, buffer |-> buffer,
                     oled_row |-> oled_row, count |-> U8(refresh_count + 1),
                     err |-> TRUE, rows |-> { },
                     calls |-> << "oled_prep_buffer" >> ]
         ELSE [ sz |-> OLED_ROW_BYTES, buffer |-> oled_row_bytes(text, oled_row),
                oled_row |-> oled_row + 1, count |-> refresh_count, err |-> FALSE,
                rows |-> { oled_row },
                calls |-> << "oled_prep_buffer", "oled_convert_text_row" >> ]
    ELSE [ sz |-> LcdFrameLen, buffer |-> lcd_prep_bytes(text, bl),
           oled_row |-> oled_row, count |-> U8(refresh_count + 1), err |-> FALSE,
           rows |-> Rows,
           calls |-> << "lcd_prep_buffer" >> ]

\* IRQ_dma1_ch4_tc: the transfer in flight has completed; clear the channel,
\* fill buffer[] and start the next transfer.
DmaTick ==
    /\ dma_irq_en /\ dma_en /\ dma_cnt > 0 /\ ~irq_masked
    /\ \E btf \in IF i2c_addr = OLED_ADDR /\ oled_row = 2 THEN BOOLEAN ELSE { TRUE } :
        LET r == PrepBuffer(btf)
            h0 == [ Hw EXCEPT !.dma_en = FALSE,
                              !.err_pending = err_pending \/ r.err,
                              !.calls = r.calls ]
            h1 == dma_start(r.sz, h0)
        IN /\ SetHw(h1)
           /\ buffer' = r.buffer
           /\ oled_row' = r.oled_row
           /\ refresh_count' = r.count
           /\ row_sent' = Started(Completed(row_sent, RowsInBuffer), r.rows)
           /\ last' = [ Step("IRQ_dma1_ch4_tc", "", h1.calls) EXCEPT !.sz = r.sz ]
    /\ UNCHANGED << fgv, bl, i2c_addr, i2c_dead, text, cleared >>

\* The ticks of a run that is followed for MaxRefresh refreshes.
IRQ_dma1_ch4_tc ==
    /\ refresh_count < MaxRefresh
    /\ DmaTick

(* ------------------------------------------------------------------ *)
(* Foreground: the first lcd_init                                     *)
(* ------------------------------------------------------------------ *)
\* The foreground runs lcd_init from its entry to the timeout timer (lines
\* 281-371), and oled_init when the OLED is found.  No interrupt is enabled
\* before the end of this step.
InitRun(float_ok, resp) ==
    /\ LET r == lcd_init_head(Hw, float_ok, resp)
       IN /\ SetHw(r.h)
          /\ i2c_addr' = r.addr
          /\ i2c_dead' = r.dead
          /\ text' = r.text
          /\ buffer' = r.buffer
          /\ oled_row' = r.oled_row
          /\ row_sent' = IF r.clr THEN [ n \in Rows |-> "stale" ] ELSE row_sent
          /\ pc' = CASE r.ret = "FALSE" -> "failed"
                     [] r.ret = "TRUE" -> "idle"
                     [] OTHER -> "init_start"
          /\ last' = [ Step(IF r.ret = "" THEN "lcd_init_enter" ELSE "lcd_init",
                            r.ret, r.h.calls) EXCEPT !.bus = resp ]
    /\ UNCHANGED << wr, sync_c, irq_masked, bl, refresh_count, cleared >>

InitEnter(float_ok, resp) ==
    /\ pc = "boot"
    /\ InitRun(float_ok, resp)
    /\ UNCHANGED sy

lcd_init_enter == \E float_ok \in BOOLEAN, resp \in Buses : InitEnter(float_ok, resp)

\* The same run on a bus that is not floating, against every set of at most
\* MaxAcks acknowledging addresses.
lcd_init_detect == \E resp \in AckBuses : InitEnter(TRUE, resp)

(* ------------------------------------------------------------------ *)
(* Foreground: the probe of the first lcd_init, wait by wait           *)
(* ------------------------------------------------------------------ *)
\* lcd_init on a bus that is not floating, up to the first wait of the first
\* i2c_probe: pins to alternate function, peripheral enabled,
\* i2c_probe_range(0x20, 0x27) entered, START requested.
lcd_init_probe ==
    /\ pc = "boot"
    /\ pc' = "probe"
    /\ sy' = [ a |-> 32, ph |-> "sb", t |-> 0 ]
    /\ SetHw([ Hw EXCEPT !.pins = "afo", !.i2c_pe = TRUE ])
    /\ last' = Step("lcd_init_probe", "",
                    << "lcd_init", "float_check", "i2c_probe_range", "i2c_start" >>)
    /\ UNCHANGED << wr, sync_c, irq_masked, drv, row_sent, cleared >>

\* i2c_probe(sy.a) has returned FALSE, with i2c_dead as given: the loop of
\* i2c_probe_range goes to the next address, passes from the first range to
\* the second, or ends; with i2c_dead set both ranges end at once, a is 0 and
\* lcd_init fails.
ProbeFails(dead) ==
    LET next == IF dead \/ sy.a = 63 THEN 0
                ELSE IF sy.a = 39 THEN 56
                ELSE sy.a + 1
    IN /\ i2c_dead' = dead
       /\ IF next = 0
          THEN /\ pc' = "failed"
               /\ sy' = NoSync
               /\ SetHw(InitFail(FALSE, Hw))
               /\ last' = Step("lcd_init", "FALSE", << >>)
          ELSE /\ pc' = "probe"
               /\ sy' = [ a |-> next, ph |-> "sb", t |-> 0 ]
               /\ SetHw(Hw)
               /\ last' = Step("i2c_probe", "FALSE", << "i2c_start" >>)
       /\ UNCHANGED << wr, sync_c, irq_masked, bl, i2c_addr, refresh_count, buffer,
                       text, oled_row, row_sent, cleared >>

\* The wait that follows a wait that found its status: i2c_start waits for SB
\* then ADDR, i2c_cmd for BTF, then i2c_probe sets STOP and waits for it to
\* clear.
NextWait(ph) ==
    CASE ph = "sb" -> "addr"
      [] ph = "addr" -> "btf"
      [] ph = "btf" -> "stop"

\* One turn of the loop of i2c_wait, a unit of time long.  seen is what
\* i2c->sr1 shows: the awaited status (the wait returns TRUE), an error flag
\* (it returns FALSE), or neither: then the loop goes on, unless the time is
\* up, when i2c_dead is set and the wait returns FALSE.
i2c_wait(seen) ==
    CASE seen = "status" ->
            /\ sy' = [ sy EXCEPT !.ph = NextWait(sy.ph), !.t = 0 ]
            /\ last' = Step("i2c_wait", "TRUE", << >>)
            /\ UNCHANGED << pc, wr, sync_c, irq_masked, drv, hwv, row_sent, cleared >>
      [] seen = "error" -> ProbeFails(i2c_dead)
      [] seen = "nothing" ->
            IF sy.t >= WaitPolls
            THEN ProbeFails(TRUE)
            ELSE /\ sy' = [ sy EXCEPT !.t = sy.t + 1 ]
                 /\ last' = Step("i2c_wait", "", << >>)
                 /\ UNCHANGED << pc, wr, sync_c, irq_masked, drv, hwv, row_sent,
                                 cleared >>

i2c_wait_turn ==
    /\ pc = "probe"
    /\ sy.ph \in { "sb", "addr", "btf" }
    /\ \E seen \in { "status", "error", "nothing" } : i2c_wait(seen)

\* The hardware clears STOP: i2c_probe leaves its second loop (lines 229-230,
\* which has no time limit) and returns TRUE, i2c_probe_range returns sy.a,
\* and lcd_init goes on to the timeout timer as in InitRun.
i2c_probe_stop ==
    /\ pc = "probe"
    /\ sy.ph = "stop"
    /\ sy' = NoSync
    /\ InitRun(TRUE, [ AllNak EXCEPT ![sy.a] = "ack" ])

\* Lines 378-388: the synchronous i2c_start and the 4-bit handshake, run with
\* the interrupts already enabled.  The foreground run is the first
\* initialisation: its reinit flag is false.
lcd_init_start ==
    /\ pc = "init_start"
    /\ ~ErrorIsrDue
    /\ \E o \in StartOutcomes :
        IF o \in { "err", "timeout" }
        THEN /\ SetHw(InitFail(FALSE, Call(Hw, "i2c_start")))
             /\ i2c_dead' = (i2c_dead \/ o = "timeout")
             /\ last' = Step("lcd_init", "FALSE", << "i2c_start" >>)
             /\ pc' = "failed"
        ELSE /\ SetHw(Hw)
             /\ i2c_dead' = i2c_dead
             /\ last' = Step("lcd_init_start", "", << "i2c_start", "write4" >>)
             /\ pc' = "init_dma"
    /\ UNCHANGED << sy, wr, sync_c, irq_masked, bl, i2c_addr, refresh_count, buffer, text,
                    oled_row, row_sent, cleared >>

\* Lines 391-401: queue the rest of the initialisation by DMA and enter
\* lcd_sync, which reads refresh_count into c.
lcd_init_dma ==
    /\ pc = "init_dma"
    /\ ~ErrorIsrDue
    /\ LET r == lcd_init_queue(Hw)
       IN /\ SetHw(r.h)
          /\ buffer' = r.buffer
          /\ last' = Step("lcd_init_dma", "", Append(r.h.calls, "lcd_sync"))
    /\ row_sent' = Aborted(row_sent)
    /\ sync_c' = refresh_count
    /\ pc' = "init_sync"
    /\ UNCHANGED << sy, wr, irq_masked, bl, i2c_addr, i2c_dead, refresh_count, text,
                    oled_row, cleared >>

\* SyncDone waiting for one refresh only.
SyncDone_One(count, c) == U8(count - c + 256) >= 1

\* lcd_sync's loop test: has refresh_count advanced by two since c was read.
SyncDone(count, c) == U8(count - c + 256) >= 2

\* Lines 401-405: lcd_sync returns, the backlight is switched on, lcd_init
\* returns TRUE.
lcd_init_done ==
    /\ pc = "init_sync"
    /\ ~ErrorIsrDue
    /\ SyncDone(refresh_count, sync_c)
    /\ bl' = BL_BIT
    /\ pc' = "idle"
    /\ last' = Step("lcd_init", "TRUE", << "lcd_backlight" >>)
    /\ UNCHANGED << sy, wr, sync_c, irq_masked, i2c_addr, i2c_dead, refresh_count, buffer,
                    text, oled_row, hwv, row_sent, cleared >>

(* ------------------------------------------------------------------ *)
(* Foreground: the public operations                                  *)
(* ------------------------------------------------------------------ *)
\* IRQ_save that leaves the interrupts unmasked.
IRQ_save_NoMask == FALSE

\* IRQ_save(I2C_IRQ_PRI): the three ISRs are held off until IRQ_restore.
IRQ_save == TRUE

\* lcd_write is entered: its locals are set and the interrupts masked.
WriteEnter(a, clr) ==
    /\ wr' = WriteStart(a[1], a[2], a[3], a[4]) @@
             [ row |-> a[2], clr |-> clr, old |-> text,
               new |-> lcd_write(text, a[1], a[2], a[3], a[4]) ]
    /\ irq_masked' = IRQ_save
    /\ pc' = "write"
    /\ row_sent' = [ row_sent EXCEPT ![a[2]] = "stale" ]
    /\ cleared' = FALSE
    /\ UNCHANGED << sy, sync_c, drv, hwv >>

lcd_write_enter ==
    /\ pc = "idle"
    /\ ~ErrorIsrDue
    /\ \E a \in WriteArgs : WriteEnter(a, 0)
    /\ last' = Step("lcd_write_enter", "", << "IRQ_save" >>)

\* One turn of a loop of lcd_write.
lcd_write_loop ==
    /\ pc = "write"
    /\ ~ErrorIsrDue
    /\ wr.ph # 3
    /\ LET n == lcd_write_step(text, wr)
       IN /\ text' = n.t
          /\ wr' = n.w
    /\ last' = Step("lcd_write_loop", "", << >>)
    /\ UNCHANGED << sy, pc, sync_c, irq_masked, bl, i2c_addr, i2c_dead, refresh_count,
                    buffer, oled_row, hwv, row_sent, cleared >>

\* IRQ_restore and return: to the caller, or to lcd_clear for its second
\* lcd_write, or from lcd_clear.
lcd_write_return ==
    /\ pc = "write"
    /\ ~ErrorIsrDue
    /\ wr.ph = 3
    /\ irq_masked' = FALSE
    /\ wr' = NoWrite
    /\ pc' = IF wr.clr = 1 THEN "clear" ELSE "idle"
    /\ cleared' = (wr.clr = 2)
    /\ last' = Step(IF wr.clr = 2 THEN "lcd_clear" ELSE "lcd_write", "",
                    << "IRQ_restore" >>)
    /\ UNCHANGED << sy, sync_c, drv, hwv, row_sent >>

\* lcd_clear: lcd_write(0, 0, 16, "") ...
lcd_clear_enter ==
    /\ pc = "idle"
    /\ ~ErrorIsrDue
    /\ WriteEnter(<< 0, 0, 16, << >> >>, 1)
    /\ last' = Step("lcd_clear_enter", "", << "lcd_write", "IRQ_save" >>)

\* lcd_clear_second clearing row 0 a second time.
lcd_clear_second_Row0 ==
    /\ pc = "clear"
    /\ ~ErrorIsrDue
    /\ WriteEnter(<< 0, 0, 16, << >> >>, 2)
    /\ last' = Step("lcd_clear_second", "", << "lcd_write", "IRQ_save" >>)

\* ... then lcd_write(0, 1, 16, "").
lcd_clear_second ==
    /\ pc = "clear"
    /\ ~ErrorIsrDue
    /\ WriteEnter(<< 0, 1, 16, << >> >>, 2)
    /\ last' = Step("lcd_clear_second", "", << "lcd_write", "IRQ_save" >>)

\* lcd_backlight(on)
lcd_backlight ==
    /\ pc = "idle"
    /\ ~ErrorIsrDue
    /\ \E on \in BOOLEAN : bl' = IF on THEN BL_BIT ELSE 0
    /\ last' = Step("lcd_backlight", "", << >>)
    /\ UNCHANGED << fgv, i2c_addr, i2c_dead, refresh_count, buffer, text, oled_row, hwv,
                    row_sent, cleared >>

\* lcd_sync is entered: c = refresh_count.
lcd_sync_enter ==
    /\ pc = "idle"
    /\ ~ErrorIsrDue
    /\ sync_c' = refresh_count
    /\ pc' = "sync"
    /\ last' = Step("lcd_sync_enter", "", << >>)
    /\ UNCHANGED << sy, wr, irq_masked, drv, hwv, row_sent, cleared >>

\* lcd_sync leaves its loop and returns.
lcd_sync_return ==
    /\ pc = "sync"
    /\ ~ErrorIsrDue
    /\ SyncDone(refresh_count, sync_c)
    /\ pc' = "idle"
    /\ last' = Step("lcd_sync", "", << >>)
    /\ UNCHANGED << sy, wr, sync_c, irq_masked, drv, hwv, row_sent, cleared >>

(* ------------------------------------------------------------------ *)
(* Specification                                                      *)
(* ------------------------------------------------------------------ *)
Isr ==
    \/ timeout_fn
    \/ BusFault
    \/ IRQ_i2c_error
    \/ IRQ_dma1_ch4_tc

FirstInit ==
    \/ lcd_init_enter
    \/ lcd_init_start
    \/ lcd_init_dma
    \/ lcd_init_done

Write ==
    \/ lcd_write_enter
    \/ lcd_write_loop
    \/ lcd_write_return

\* The foreground initialises the display, then writes text, switches the
\* backlight and synchronises.
Next ==
    \/ FirstInit
    \/ Isr
    \/ Write
    \/ lcd_backlight
    \/ lcd_sync_enter
    \/ lcd_sync_return

Spec == Init /\ [][Next]_vars

\* The foreground initialises the display, then writes text and clears.
NextClear ==
    \/ FirstInit
    \/ Isr
    \/ Write
    \/ lcd_clear_enter
    \/ lcd_clear_second

SpecClear == Init /\ [][NextClear]_vars

\* The foreground initialises the display, then writes text, while the bus
\* fails and recovers.  The timeout timer expires once set; a pending error
\* interrupt is taken as soon as the foreground lifts the mask, and the
\* foreground does not stop inside lcd_write, where the mask is held.
NextRecover ==
    \/ FirstInit
    \/ Isr
    \/ Write

SpecRecover ==
    /\ Init
    /\ [][NextRecover]_vars
    /\ WF_vars(timeout_fn)
    /\ SF_vars(IRQ_i2c_error)
    /\ WF_vars(lcd_write_loop)
    /\ WF_vars(lcd_write_return)

\* The display is initialised and then refreshed without end, with the
\* backlight switched and, once lcd_init has returned, bus errors and
\* timeouts: refresh_count runs through all its 256 values.
NextWrap ==
    \/ FirstInit
    \/ pc = "idle" /\ timeout_fn
    \/ pc = "idle" /\ BusFault
    \/ pc = "idle" /\ IRQ_i2c_error
    \/ DmaTick
    \/ lcd_backlight

SpecWrap == Init /\ [][NextWrap]_vars

\* The first lcd_init against every small set of acknowledging addresses, and
\* the refreshes that follow it.
NextDetect ==
    \/ lcd_init_detect
    \/ lcd_init_start
    \/ lcd_init_dma
    \/ lcd_init_done
    \/ IRQ_dma1_ch4_tc

SpecDetect == Init /\ [][NextDetect]_vars

\* The probe of the first lcd_init, wait by wait, on a bus that may show the
\* awaited status, an error, or nothing, at every turn of every wait.  The
\* foreground keeps polling and time passes; nothing makes the hardware clear
\* STOP.
NextSync ==
    \/ lcd_init_probe
    \/ i2c_wait_turn
    \/ i2c_probe_stop

SpecSync == Init /\ [][NextSync]_vars /\ WF_vars(i2c_wait_turn)

(* ------------------------------------------------------------------ *)
(* lcd_write on its own                                               *)
(* ------------------------------------------------------------------ *)
\* The texts lcd_write is run on: the cleared display, and one with a
\* different lower-case letter in every cell of a row.
WriteTexts == { Blank, [ n \in Cells |-> 97 + (n % TEXT_COLS) + (n \div TEXT_COLS) ] }
\* "ABC...", cut to n characters.
Upper(n) == [ k \in 1 .. n |-> 64 + k ]
WriteStrs == { Upper(n) : n \in 0 .. MaxStr } \cup { Upper(TEXT_COLS + 1) }
WriteMins == -1 .. MaxMin

InitWrite ==
    /\ pc = "call"
    /\ text \in WriteTexts
    /\ Statics

\* The locals of lcd_write when it returns.
RECURSIVE WriteLocals(_, _)
WriteLocals(t, w) ==
    IF w.ph = 3 THEN w
    ELSE LET n == lcd_write_step(t, w) IN WriteLocals(n.t, n.w)

\* One call lcd_write(col, row, min, str), start to return; wr keeps the
\* arguments, the text before the call and the locals at the return.
lcd_write_call ==
    /\ pc = "call"
    /\ \E col \in 0 .. (TEXT_COLS - 1), row \in Rows, min \in WriteMins,
          str \in WriteStrs :
        /\ text' = lcd_write(text, col, row, min, str)
        /\ wr' = [ NoWrite EXCEPT !.col = col, !.row = row, !.min = min, !.str = str,
                                  !.old = text,
                                  !.p = WriteLocals(text, WriteStart(col, row, min, str)).p ]
    /\ pc' = "returned"
    /\ last' = Step("lcd_write", "", << >>)
    /\ UNCHANGED << sy, sync_c, irq_masked, bl, i2c_addr, i2c_dead, refresh_count, buffer,
                    oled_row, hwv, row_sent, cleared >>

SpecWrite == InitWrite /\ [][lcd_write_call]_vars

(* ------------------------------------------------------------------ *)
(* lcd_prep_buffer on its own                                         *)
(* ------------------------------------------------------------------ *)
\* Character codes with every nibble pattern that matters to emit8.
FrameChars == { 0, 15, 16, 127, 128, 240, 255 }
\* The texts lcd_prep_buffer is run on: "HELLO" written by
\* lcd_write(0, 0, 16, "HELLO") on the cleared display, and the cleared
\* display with one cell set to one of FrameChars.
FrameTexts ==
    { lcd_write(Blank, 0, 0, 16, << 72, 69, 76, 76, 79 >>) } \cup
    { [ Blank EXCEPT ![n] = c ] : n \in Cells, c \in FrameChars }

InitFrame ==
    /\ pc = "idle"
    /\ text \in FrameTexts
    /\ Statics

\* One call of lcd_prep_buffer: refresh_count++, then the frame into buffer[].
lcd_prep_buffer ==
    /\ pc = "idle"
    /\ refresh_count < MaxRefresh
    /\ refresh_count' = U8(refresh_count + 1)
    /\ buffer' = lcd_prep_bytes(text, bl)
    /\ last' = [ Step("lcd_prep_buffer", "", << "emit8" >>) EXCEPT
                   !.sz = Len(lcd_prep_bytes(text, bl)) ]
    /\ UNCHANGED << fgv, bl, i2c_addr, i2c_dead, text, oled_row, hwv, row_sent,
                    cleared >>

NextFrame ==
    \/ lcd_prep_buffer
    \/ lcd_backlight

SpecFrame == InitFrame /\ [][NextFrame]_vars

(* ------------------------------------------------------------------ *)
(* Properties                                                         *)
(* ------------------------------------------------------------------ *)
\* How often the step recorded in l called f.
CalledIn(l, f) == Cardinality({ n \in DOMAIN l.calls : l.calls[n] = f })
Tick == "IRQ_dma1_ch4_tc"
CharMode == i2c_addr # 0 /\ i2c_addr # OLED_ADDR
AllFlushed == \A r \in Rows : row_sent[r] = "done"

\* C1: when lcd_sync returns, every lcd_write that returned before it was
\* called has been part of a transfer that ran to completion.
C1_SyncFlushes == last.op = "lcd_sync" => AllFlushed

\* C1 in bitmap mode only, where refresh_count moves only when the transfer
\* of row 1 completes.
C1_SyncFlushesOled == last.op = "lcd_sync" /\ i2c_addr = OLED_ADDR => AllFlushed

\* C2: no DMA-completion tick runs between the first and the last store of an
\* lcd_write: the text a tick serializes is the text before or after the call.
C2_WriteAtomic ==
    last.op = Tick => pc # "write" \/ text \in { wr.old, wr.new }

\* C2's case: an lcd_write has stored part of its text while a transfer is in
\* flight and its completion interrupt is enabled but masked.
C2_Witness ==
    /\ pc = "write" /\ text \notin { wr.old, wr.new }
    /\ irq_masked /\ dma_irq_en /\ dma_en /\ dma_cnt > 0

\* The larger of two integers.
Larger(a, b) == IF a > b THEN a ELSE b
\* The column after the last cell lcd_write(col, row, min, str) is to fill:
\* the text, then spaces up to min cells, cut at column 16.
WriteEnd(col, min, str) ==
    IF col + Larger(Len(str), min) > TEXT_COLS THEN TEXT_COLS
    ELSE col + Larger(Len(str), min)

\* C3: lcd_write stores the text from (col,row) on, then spaces until min
\* cells are written, stores nothing at column 16 or beyond, and leaves every
\* other cell as it was.
C3_WriteContract ==
    pc = "returned" =>
        /\ \A r \in Rows, c \in 0 .. (TEXT_COLS - 1) :
            text[r * TEXT_COLS + c] =
                IF r = wr.row /\ c >= wr.col /\ c < WriteEnd(wr.col, wr.min, wr.str)
                THEN IF c - wr.col < Len(wr.str) THEN wr.str[c - wr.col + 1] ELSE SPACE
                ELSE wr.old[r * TEXT_COLS + c]
        /\ wr.p <= (wr.row + 1) * TEXT_COLS

\* C3's case: a one-character text written at column 14 with min 17 over a
\* row of letters: one character, one space, then the cut at column 16.
C3_Witness ==
    /\ pc = "returned" /\ wr.col = 14 /\ wr.row = 0 /\ wr.min = 17 /\ wr.str = << 65 >>
    /\ wr.old # Blank
    /\ text[14] = 65 /\ text[15] = SPACE /\ text[16] = wr.old[16]

\* C4: lcd_backlight changes _bl and nothing else; every byte of the next
\* character-mode frame carries the BL bit as _bl is when it is serialized,
\* and the next re-addressing sequence of the bitmap mode carries display on
\* (0xaf) or off (0xae) accordingly.
C4_BacklightDeferred ==
    [][ /\ last'.op = "lcd_backlight" =>
            UNCHANGED << fgv, i2c_addr, i2c_dead, refresh_count, buffer, text, oled_row,
                         hwv >>
        /\ last'.op = Tick /\ CharMode =>
            \A n \in DOMAIN buffer' : ((buffer'[n] \div BL_BIT) % 2) * BL_BIT = bl
        /\ last'.op = Tick /\ i2c_addr = OLED_ADDR
                           /\ CalledIn(last', "oled_start_i2c") = 1 =>
            buffer'[18] = IF bl # 0 THEN 175 ELSE 174 ]_vars

\* C4's case: after lcd_init has switched the backlight on, lcd_backlight(0)
\* was called and a character-mode frame was serialized with the bit clear.
C4_Witness ==
    /\ last.op = Tick /\ CharMode /\ pc = "idle" /\ bl = 0
    /\ Len(buffer) = LcdFrameLen /\ buffer[1] = CMD_SETDDRADDR

\* C5: once the first lcd_init has failed, the peripheral is disabled, the
\* pins are pull-up inputs, the error and DMA interrupts are disabled, and
\* nothing runs any more but the expiry of a timer left set.
C5_FailedInitInert ==
    pc = "failed" =>
        /\ ~i2c_pe /\ pins = "pull_up" /\ ~err_irq_en /\ ~dma_irq_en
        /\ last.op \in { "lcd_init", "timeout_fn" }
        /\ last.op = "lcd_init" => last.ret = "FALSE"

\* C5's case: lcd_init failed at line 378 with the timeout timer set; the
\* timer has expired and the error interrupt is pending, and disabled.
C5_Witness == pc = "failed" /\ last.op = "timeout_fn" /\ err_pending

\* The error ISR's lcd_init has just returned FALSE.  The error interrupt is
\* not pending then: lcd_init cleared it at line 358, before the i2c_start
\* that failed.
FailedReinit == last.op = "IRQ_i2c_error" /\ last.ret = "FALSE"

\* Another run of the error ISR follows: the error interrupt becomes pending
\* and is then cleared again, which only a run of lcd_init does.
RetryFollows == <>(err_pending /\ <>(~err_pending))

C8_ClearedOnEveryInit ==
    /\ last.op \in { "lcd_init", "IRQ_i2c_error" }
    /\ last.ret = "TRUE"
    => text = Blank

\* C8 as the code has it: text[][] is blank when the first lcd_init returns
\* TRUE, and a run of the error ISR leaves text[][] as it is.
C8_ClearedOnFirstInit ==
    [][ /\ last'.op = "lcd_init" /\ last'.ret = "TRUE" => text' = Blank
        /\ last'.op = "IRQ_i2c_error" => text' = text ]_vars

\* C8's case: the error ISR's lcd_init has succeeded over a text that is not
\* blank.
C8_Witness == last.op = "IRQ_i2c_error" /\ last.ret = "TRUE" /\ text # Blank

\* Command or character k (from 0) of a character-mode frame: its value from
\* the two nibbles, and its register-select bit.
FrameItem(buf, k) ==
    [ val |-> HiNibble[buf[6 * k + 1]] + (buf[6 * k + 4] \div 16),
      rs |-> buf[6 * k + 1] % 2 ]

\* C9: after lcd_clear, until the next lcd_write, all 32 cells are spaces, and
\* a character-mode frame serialized then is the row-0 address command, 16
\* spaces, the row-1 address command, 16 spaces.
C9_ClearBlanks ==
    cleared =>
        /\ text = Blank
        /\ last.op = Tick /\ CharMode =>
            /\ Len(buffer) = 6 * 34
            /\ FrameItem(buffer, 0) = [ val |-> 128, rs |-> 0 ]
            /\ FrameItem(buffer, 17) = [ val |-> 192, rs |-> 0 ]
            /\ \A k \in (1 .. 16) \cup (18 .. 33) :
                FrameItem(buffer, k) = [ val |-> SPACE, rs |-> 1 ]

\* C9's case: lcd_clear has returned and a character-mode frame was
\* serialized before the next lcd_write.
C9_Witness == cleared /\ last.op = Tick /\ CharMode

\* C10 as claimed: a tick starts a transfer and sets the timer exactly when
\* the serializer's result is not empty.
C10_StartIffNonEmpty ==
    last.op = Tick =>
        ((Called("dma_start") >= 1 /\ Called("timer_set") >= 1) <=> last.sz > 0)

\* C10 as the code has it: every tick calls dma_start with the serializer's
\* result and sets the timer; with an empty result the channel is enabled
\* with a count of zero and the error interrupt is pending.
C10_AlwaysStarts ==
    last.op = Tick =>
        /\ Called("dma_start") = 1 /\ Called("timer_set") = 1
        /\ dma_en /\ timer_armed /\ dma_cnt = last.sz
        /\ last.sz = 0 => err_pending /\ i2c_addr = OLED_ADDR

\* C10's case: oled_prep_buffer has returned 0.
C10_Witness == last.op = Tick /\ last.sz = 0

\* The transfer that a tick finds completed carried a whole frame: in
\* character mode both rows, in bitmap mode the second row, with its last
\* byte out (BTF) before the new transaction.
FrameCompleted ==
    IF i2c_addr = OLED_ADDR THEN oled_row = 2 /\ last'.sz # 0
    ELSE dma_cnt = LcdFrameLen

\* C11: refresh_count moves only at a tick that finds a whole frame
\* transmitted, and every such tick adds one to it.
C11_CountsCompletedFrames ==
    [][ /\ refresh_count' # refresh_count => last'.op = Tick /\ FrameCompleted
        /\ last'.op = Tick /\ FrameCompleted => refresh_count' = U8(refresh_count + 1)
      ]_vars

\* C12: refresh_count stays or goes up by one modulo 256 in every step, and
\* only IRQ_dma1_ch4_tc changes it.
C12_CounterMonotonic ==
    [][ /\ refresh_count' \in { refresh_count, (refresh_count + 1) % 256 }
        /\ refresh_count' # refresh_count => last'.op = Tick ]_vars

\* C12's case: a character-mode tick has taken refresh_count from 255 to 0.
C12_Witness == last.op = Tick /\ CharMode /\ refresh_count = 0

\* A tick in bitmap mode.
OledTick == last'.op = Tick /\ i2c_addr = OLED_ADDR

\* buf is the re-addressing sequence: the eight addressing-window bytes, each
\* behind a 0x80, the display on/off command for backlight blv, and 0x40.
IsReaddress(buf, blv) ==
    /\ Len(buf) = 19
    /\ \A i \in 1 .. 8 : buf[2 * i - 1] = 128 /\ buf[2 * i] = setup_addr_cmds[i]
    /\ buf[17] = 128
    /\ buf[18] = IF blv # 0 THEN 175 ELSE 174
    /\ buf[19] = 64

\* The serializer call that turns row r into 256 bytes of glyph data and
\* moves the cursor on.
GlyphRowCall(r) ==
    /\ last'.sz = OLED_ROW_BYTES
    /\ buffer' = oled_row_bytes(text, r)
    /\ oled_row' = r + 1

\* The serializer call that yields the re-addressing sequence.
ReaddressCall ==
    /\ last'.sz = 19
    /\ IsReaddress(buffer', bl)
    /\ oled_row' = 0

\* The cursor is 0 when an initialisation has found or kept the OLED.
CursorResetByInit ==
    /\ last'.op \in { "lcd_init", "IRQ_i2c_error" }
    /\ i2c_addr' = OLED_ADDR
    => oled_row' = 0

\* C13 as claimed: oled_row is 0, 1 or 2; the serializer calls go row 0, row
\* 1, re-addressing, without exception; oled_row is 0 after an initialisation.
C13_CursorCycleStrict ==
    [][ /\ oled_row' \in 0 .. 2
        /\ OledTick /\ oled_row \in 0 .. 1 => GlyphRowCall(oled_row)
        /\ OledTick /\ oled_row = 2 => ReaddressCall
        /\ CursorResetByInit ]_vars

\* C13 as the code has it: the same, except that the call at cursor 2 whose
\* wait for BTF ends in an error returns 0, leaves buffer[] and the cursor as
\* they are, and has the error interrupt pending; the cursor stays 2 until the
\* error ISR's oled_init resets it.
C13_CursorCycle ==
    [][ /\ oled_row' \in 0 .. 2
        /\ OledTick /\ oled_row \in 0 .. 1 => GlyphRowCall(oled_row)
        /\ OledTick /\ oled_row = 2 =>
            \/ ReaddressCall
            \/ /\ last'.sz = 0
               /\ oled_row' = 2
               /\ buffer' = buffer
               /\ err_pending'
        /\ CursorResetByInit ]_vars

\* C13's case: the third call of a cycle has yielded the re-addressing
\* sequence and reset the cursor.
C13_Witness ==
    /\ last.op = Tick
    /\ i2c_addr = OLED_ADDR
    /\ oled_row = 0
    /\ refresh_count > 0

\* C14: the frame lcd_prep_buffer leaves in buffer[] is 68 nibbles of three
\* bytes each, the enable bit set in the middle byte only, the backlight bit
\* as _bl and R/W clear; its 34 items are the row-0 address command, the 16
\* characters of row 0 with RS, the row-1 address command, the 16 characters
\* of row 1 with RS; decoded, the characters are text[][].
C14_FrameRoundTrip ==
    last.op = "lcd_prep_buffer" =>
        /\ Len(buffer) = 6 * 34
        /\ last.sz = 6 * 34
        /\ \A g \in 0 .. 67 :
            LET b == buffer[3 * g + 1]
            IN /\ buffer[3 * g + 3] = b
               /\ buffer[3 * g + 2] = b + EN_BIT
               /\ BitAnd(b, EN_BIT) = 0
               /\ BitAnd(b, 2) = 0
               /\ BitAnd(b, BL_BIT) = bl
        /\ \A k \in 0 .. 33 : buffer[6 * k + 4] % 2 = buffer[6 * k + 1] % 2
        /\ FrameItem(buffer, 0) = [ val |-> CMD_SETDDRADDR, rs |-> 0 ]
        /\ FrameItem(buffer, 17) = [ val |-> CMD_SETDDRADDR + 64, rs |-> 0 ]
        /\ \A n \in Cells :
            FrameItem(buffer, 1 + 17 * (n \div TEXT_COLS) + (n % TEXT_COLS)) =
                [ val |-> text[n], rs |-> 1 ]

\* C14's case: the frame of the display after lcd_write(0, 0, 16, "HELLO"),
\* with the backlight on: row 0 decodes to HELLO and eleven spaces.
C14_Witness ==
    /\ last.op = "lcd_prep_buffer"
    /\ bl = BL_BIT
    /\ [ j \in 1 .. TEXT_COLS |-> FrameItem(buffer, j).val ] =
           << 72, 69, 76, 76, 79 >> \o [ j \in 1 .. 11 |-> SPACE ]

\* The addresses that acknowledge on a bus.
Acks(bus) == { a \in ProbeAddrs : bus[a] = "ack" }

\* The lowest address of S between lo and hi, 0 if there is none.
LowestAck(S, lo, hi) ==
    LET R == S \cap (lo .. hi)
    IN IF R = { } THEN 0 ELSE CHOOSE a \in R : \A b \in R : a <= b

\* C15: the first lcd_init, once it has probed, has i2c_addr at the lowest
\* acknowledging address of 0x20-0x27 if there is one, else at the lowest of
\* 0x38-0x3f; it runs oled_init exactly when that is 0x3c; with no
\* acknowledging address it fails and i2c_addr stays 0.  Every tick then
\* runs oled_prep_buffer when i2c_addr is 0x3c and lcd_prep_buffer otherwise.
C15_DetectsLowest ==
    /\ last.bus # << >> /\ Called("i2c_probe_range") = 1 =>
        LET S == Acks(last.bus)
            first == LowestAck(S, 32, 39)
        IN /\ i2c_addr = IF first # 0 THEN first ELSE LowestAck(S, 56, 63)
           /\ (Called("oled_init") = 1) <=> (i2c_addr = OLED_ADDR)
           /\ (last.op = "lcd_init_enter") <=> CharMode
           /\ (S = { }) <=> (i2c_addr = 0)
           /\ (i2c_addr = 0) <=> (last.op = "lcd_init" /\ last.ret = "FALSE")
           /\ (i2c_addr = 0) <=> (pc = "failed")
    /\ last.op = Tick =>
        /\ (Called("oled_prep_buffer") = 1) <=> (i2c_addr = OLED_ADDR)
        /\ (Called("lcd_prep_buffer") = 1) <=> CharMode

\* C15's case: 0x3c and 0x3d acknowledge and nothing in the first range; the
\* detector has returned 0x3c and the OLED is initialised.
C15_Witness ==
    /\ last.bus # << >>
    /\ Acks(last.bus) = { 60, 61 }
    /\ i2c_addr = OLED_ADDR
    /\ pc = "idle"

\* C16: the floating-bus check of lines 315-323 is made by the lcd_init the
\* foreground enters at boot, and by no lcd_init the error ISR runs.
C16_FloatCheckFirstOnly ==
    /\ last.bus # << >> => Called("float_check") = 1
    /\ last.op = "IRQ_i2c_error" => Called("lcd_init") = 1 /\ Called("float_check") = 0

\* C16's case: the error ISR has run lcd_init while the first lcd_init is
\* still in the foreground, before any refresh.
C16_Witness ==
    /\ last.op = "IRQ_i2c_error"
    /\ pc = "init_start"
    /\ refresh_count = 0
    /\ Called("lcd_init") = 1

\* Every step that calls dma_start leaves the timeout timer set; while the
\* DMA channel is enabled the timer is set, or has expired and left the error
\* interrupt pending; the error ISR cancels the timer and runs lcd_init.
WatchdogCovers ==
    /\ Called("dma_start") >= 1 => Called("timer_set") >= 1 /\ timer_armed
    /\ dma_en => timer_armed \/ err_pending
    /\ last.op = "IRQ_i2c_error" =>
        Called("timer_cancel") = 1 /\ Called("lcd_init") = 1

InWait(a, ph) == pc = "probe" /\ sy.a = a /\ sy.ph = ph

\* Every wait of i2c_start and i2c_cmd ends.
SyncWaitsTerminate ==
    \A a \in ProbeAddrs, ph \in { "sb", "addr", "btf" } :
        [](InWait(a, ph) => <>(~InWait(a, ph)))

\* A wait that runs out of time fails its operation and sets i2c_dead; no
\* further address is probed and lcd_init fails.
DeadEndsProbe ==
    [][ i2c_dead' /\ ~i2c_dead =>
            /\ sy.t >= WaitPolls
            /\ pc' = "failed" /\ last'.op = "lcd_init" /\ last'.ret = "FALSE"
            /\ i2c_addr' = 0 ]_vars

\* C18: every i2c_start, i2c_cmd and i2c_probe returns, whatever the bus
\* shows, and a wait that runs out of time sets i2c_dead, ends the probing
\* and fails lcd_init.
C18_SyncOpsTerminate ==
    /\ DeadEndsProbe
    /\ SyncWaitsTerminate
    /\ \A a \in ProbeAddrs :
        [](pc = "probe" /\ sy.a = a => <>(~(pc = "probe" /\ sy.a = a)))

\* The steps of the foreground lcd_init that store into buffer[]: oled_init
\* within the step from boot, and lines 391-396.
InitWritesBuffer ==
    \/ last'.op = "lcd_init_dma"
    \/ last'.op \in { "lcd_init", "lcd_init_enter" } /\ buffer' # buffer

\* C19: the foreground lcd_init stores into buffer[] only while the DMA
\* channel is disabled; the two ISRs, which disable the channel before they
\* store, are the only other steps that change buffer[]; no public operation
\* changes it.
C19_BufferNotWrittenInFlight ==
    [][ /\ InitWritesBuffer => ~dma_en
        /\ buffer' # buffer =>
            last'.op \in { Tick, "IRQ_i2c_error", "lcd_init", "lcd_init_enter",
                           "lcd_init_dma" } ]_vars

\* C20: the length given to every dma_start is at most sizeof(buffer), and
\* is the number of bytes the serializer stored in buffer[] (or zero when
\* oled_prep_buffer returned early), so the stores stay inside buffer[] too.
C20_DmaLengthFits ==
    /\ dma_cnt <= BUFFER_SIZE
    /\ Len(buffer) <= BUFFER_SIZE
    /\ dma_cnt \in { 0, Len(buffer) }
    /\ last.sz <= BUFFER_SIZE

\* A glyph-row chunk, which fills buffer[] exactly, has been started.
C20_Witness ==
    /\ last.op = Tick /\ CalledIn(last, "oled_convert_text_row") = 1
    /\ last.sz = BUFFER_SIZE /\ dma_cnt = BUFFER_SIZE /\ dma_en

====
